---------------------------- MODULE Spec2Model ----------------------------
(***************************************************************************)
(* Model of three parts of crypto-bigint:                                  *)
(*   src/uint/shr.rs                    right shifts of Uint<LIMBS>        *)
(*   src/modular/reduction.rs           Montgomery reduction (HAC 14.32)   *)
(*   src/modular/boxed_residue/pow.rs   windowed modular exponentiation    *)
(* A Uint / BoxedUint is a function from limb index 0..LIMBS-1 to a word   *)
(* of W bits (little-endian), W standing for Limb::BITS.  Word arithmetic  *)
(* keeps its width: every wrapping operation is taken modulo 2^W.          *)
(***************************************************************************)
EXTENDS Integers, Sequences, FiniteSets, TLC

VARIABLES
    W,           \* Limb::BITS of the build
    LIMBS,       \* limb count of the Uint / of the modulus
    \* ---- uint/shr.rs
    x,           \* the receiver of the shift calls
    upperIn,     \* the upper half handed to shr_vartime_wide
    op,          \* the last shift operation applied
    shift,       \* its shift amount (the sum of both amounts after two shr)
    lastShift,   \* the amount of the last call alone
    result,      \* its result (the lower half of shr_vartime_wide)
    resultUpper, \* the upper half returned by shr_vartime_wide
    panicked,    \* whether the call panicked (index or arithmetic overflow)
    \* ---- modular/reduction.rs
    modulus,     \* the odd modulus
    mod_neg_inv, \* -modulus^-1 mod 2^W
    lower_upper, \* the double-width input [lower, upper]
    lower,       \* working copy of the lower half
    upper,       \* working copy of the upper half
    meta_carry,  \* the running meta-carry
    red_i,       \* `i`, the index of the outer reduction loop
    out,         \* the reduced value
    pc,          \* position in the reduction / the exponentiation
    \* ---- modular/boxed_residue/pow.rs
    base,        \* the plain base a (the residue is a in Montgomery form)
    montgomery_form, \* self.montgomery_form = a * R mod modulus
    r,           \* residue_params.r = R mod modulus
    exponent,    \* the exponent's limbs
    entry,       \* the public entry point called
    exponent_bits,
    powers,      \* the table of powers (a sequence, powers[k + 1] = x^k)
    z,           \* the accumulator
    limb_num,
    window_num,
    trace,       \* the multiplier operations and table scans performed
    ret          \* the value returned

shrVars == <<x, upperIn, op, shift, lastShift, result, resultUpper, panicked>>
redVars == <<modulus, mod_neg_inv, lower_upper, lower, upper, meta_carry, red_i, out>>
powVars == <<base, montgomery_form, r, exponent, entry, exponent_bits, powers, z,
             limb_num, window_num, trace, ret>>
vars == <<W, LIMBS, pc, shrVars, redVars, powVars>>

(***************************************************************************)
(* Word and limb helpers                                                   *)
(*                                                                         *)
(* Where a value computed by one step feeds the next, the operators below  *)
(* write  CHOOSE res \in {F(v) : v \in {e}} : TRUE  for  LET v == e IN F(v):*)
(* the two mean the same, and TLC evaluates e once, before F.              *)
(***************************************************************************)
Pow2(k) == 2 ^ k

RECURSIVE BitAnd(_, _)
BitAnd(a, b) ==
    IF a = 0 \/ b = 0 THEN 0
    ELSE (a % 2) * (b % 2) + 2 * BitAnd(a \div 2, b \div 2)

RECURSIVE BitOr(_, _)
BitOr(a, b) ==
    IF a = 0 THEN b
    ELSE IF b = 0 THEN a
    ELSE (IF a % 2 = 1 \/ b % 2 = 1 THEN 1 ELSE 0) + 2 * BitOr(a \div 2, b \div 2)

\* All words of w bits.
Words(w) == 0 .. (Pow2(w) - 1)

\* All Uints of n limbs of w bits.
Uints(w, n) == [0 .. (n - 1) -> Words(w)]

Zero(n) == [k \in 0 .. (n - 1) |-> 0]

\* The number a Uint stands for (little-endian limbs).
RECURSIVE ToNatFrom(_, _, _, _)
ToNatFrom(u, w, n, k) ==
    IF k >= n THEN 0 ELSE u[k] + Pow2(w) * ToNatFrom(u, w, n, k + 1)

ToNat(u, w, n) == ToNatFrom(u, w, n, 0)

\* The Uint of n limbs of w bits holding v mod 2^(n*w).
FromNat(v, w, n) == [k \in 0 .. (n - 1) |-> (v \div Pow2(k * w)) % Pow2(w)]

(***************************************************************************)
(* uint/shr.rs                                                             *)
(***************************************************************************)
\* shr_vartime without its `shift > Self::BITS` early return.
shr_vartime_no_guard(self, sh, w, n) ==
    LET full_shifts == sh \div w
        small_shift == BitAnd(sh, w - 1)
        cnt         == n - full_shifts
        reads       == {k + full_shifts : k \in 0 .. (cnt - 1)}
                       \cup (IF small_shift = 0 THEN {}
                             ELSE {k + full_shifts + 1 :
                                     k \in {j \in 0 .. (cnt - 1) : j < (n - 1) - full_shifts}})
        limbAt(k)   == IF small_shift = 0
                       THEN self[k + full_shifts]
                       ELSE LET lo == self[k + full_shifts] \div Pow2(small_shift)
                            IN  IF k < (n - 1) - full_shifts
                                THEN BitOr(lo, (self[k + full_shifts + 1]
                                                  * Pow2(w - small_shift)) % Pow2(w))
                                ELSE lo
    IN  IF cnt < 0 \/ ~(reads \subseteq 0 .. (n - 1))
        THEN [limbs |-> Zero(n), panic |-> TRUE]
        ELSE [limbs |-> [k \in 0 .. (n - 1) |-> IF k < cnt THEN limbAt(k) ELSE 0],
              panic |-> FALSE]

\* shr_vartime that drops the bits carried in from the next-higher limb.
shr_vartime_no_carry_in(self, sh, w, n) ==
    LET full_shifts == sh \div w
        small_shift == BitAnd(sh, w - 1)
        cnt         == n - full_shifts
    IN  IF sh > n * w
        THEN [limbs |-> Zero(n), panic |-> FALSE]
        ELSE [limbs |-> [k \in 0 .. (n - 1) |->
                            IF k < cnt
                            THEN self[k + full_shifts] \div Pow2(small_shift)
                            ELSE 0],
              panic |-> FALSE]

\* Uint::shr_vartime: [limbs, panic].  panic is set where the code would
\* overflow a usize subtraction or index self.limbs out of range.
shr_vartime(self, sh, w, n) ==
    LET full_shifts == sh \div w
        small_shift == BitAnd(sh, w - 1)
        BITS        == n * w
        cnt         == n - full_shifts          \* `let shift = LIMBS - full_shifts`
        reads       == IF small_shift = 0
                       THEN {k + full_shifts : k \in 0 .. (cnt - 1)}
                       ELSE {k + full_shifts : k \in 0 .. (cnt - 1)}
                            \cup {k + full_shifts + 1 :
                                    k \in {j \in 0 .. (cnt - 1) : j < (n - 1) - full_shifts}}
        limbAt(k)   == IF small_shift = 0
                       THEN self[k + full_shifts]
                       ELSE LET lo == self[k + full_shifts] \div Pow2(small_shift)
                            IN  IF k < (n - 1) - full_shifts
                                THEN BitOr(lo, (self[k + full_shifts + 1]
                                                  * Pow2(w - small_shift)) % Pow2(w))
                                ELSE lo
    IN  IF sh > BITS
        THEN [limbs |-> Zero(n), panic |-> FALSE]
        ELSE IF cnt < 0 \/ ~(reads \subseteq 0 .. (n - 1))
        THEN [limbs |-> Zero(n), panic |-> TRUE]
        ELSE [limbs |-> [k \in 0 .. (n - 1) |-> IF k < cnt THEN limbAt(k) ELSE 0],
              panic |-> FALSE]

\* Uint::LOG2_BITS: the ladder of shr has LOG2_BITS + 1 stages.
LOG2_BITS(BITS) ==
    CHOOSE k \in 0 .. BITS : Pow2(k) >= BITS /\ (k = 0 \/ Pow2(k - 1) < BITS)

\* The `while i < Self::LOG2_BITS + 1` loop of Uint::shr.
RECURSIVE shr_ladder(_, _, _, _, _)
shr_ladder(acc, s, i, w, n) ==
    IF i >= LOG2_BITS(n * w) + 1 THEN acc
    ELSE LET bit     == (s \div Pow2(i)) % 2 = 1
             shifted == shr_vartime(acc.limbs, Pow2(i), w, n)
         IN  shr_ladder([limbs |-> IF bit THEN shifted.limbs ELSE acc.limbs,
                         panic |-> acc.panic \/ shifted.panic],
                        s, i + 1, w, n)

\* Uint::shr: [limbs, panic].
shr(self, sh, w, n) ==
    LET BITS     == n * w
        overflow == ~(sh < BITS)
        s        == sh % BITS
        rs       == shr_ladder([limbs |-> self, panic |-> FALSE], s, 0, w, n)
    IN  [limbs |-> IF overflow THEN Zero(n) ELSE rs.limbs, panic |-> rs.panic]

\* Uint::shl_vartime (uint/shl.rs): zero for a shift of BITS or more.
shl_vartime(self, sh, w, n) ==
    IF sh >= n * w THEN Zero(n)
    ELSE FromNat(ToNat(self, w, n) * Pow2(sh), w, n)

\* Uint::bitor
bitor(a, b, n) == [k \in 0 .. (n - 1) |-> BitOr(a[k], b[k])]

\* shr_vartime_wide that forgets the bits of `upper` when shift >= BITS.
shr_vartime_wide_no_upper_bits(lo, hi, sh, w, n) ==
    LET BITS      == n * w
        new_upper == shr_vartime(hi, sh, w, n)
        lower1    == shr_vartime(lo, sh, w, n)
    IN  [lower |-> IF sh >= BITS
                   THEN lower1.limbs
                   ELSE bitor(lower1.limbs, shl_vartime(hi, BITS - sh, w, n), n),
         upper |-> new_upper.limbs,
         panic |-> new_upper.panic \/ lower1.panic]

\* Uint::shr_vartime_wide: [lower, upper, panic].
shr_vartime_wide(lo, hi, sh, w, n) ==
    LET BITS      == n * w
        new_upper == shr_vartime(hi, sh, w, n)
        lower1    == shr_vartime(lo, sh, w, n)
        carryIn   == IF sh >= BITS
                     THEN shr_vartime(hi, sh - BITS, w, n)
                     ELSE [limbs |-> shl_vartime(hi, BITS - sh, w, n), panic |-> FALSE]
    IN  [lower |-> bitor(lower1.limbs, carryIn.limbs, n),
         upper |-> new_upper.limbs,
         panic |-> new_upper.panic \/ lower1.panic \/ carryIn.panic]

(***************************************************************************)
(* The shift calls as a state machine: a receiver x, then one call, and    *)
(* after a shr a second shr on its result.                                 *)
(***************************************************************************)
\* Extra shift amounts tried beyond 2 * BITS.
ShiftSlack == 2

\* (Limb::BITS, LIMBS) of the builds explored; Limb::BITS is a power of two.
ShrConfigs == {<<2, 1>>, <<2, 2>>, <<2, 3>>, <<4, 1>>, <<4, 2>>}

Shifts == 0 .. (2 * W * LIMBS + ShiftSlack)

\* The parts of the state a specification does not exercise stay idle.
IdleShr ==
    /\ x = <<>> /\ upperIn = <<>> /\ op = "none" /\ shift = 0 /\ lastShift = 0
    /\ result = <<>> /\ resultUpper = <<>> /\ panicked = FALSE

IdleRed ==
    /\ modulus = <<>> /\ mod_neg_inv = 0 /\ lower_upper = <<>> /\ lower = <<>>
    /\ upper = <<>> /\ meta_carry = 0 /\ red_i = 0 /\ out = <<>>

IdlePow ==
    /\ base = 0 /\ montgomery_form = <<>> /\ r = <<>> /\ exponent = <<>>
    /\ entry = "none" /\ exponent_bits = 0 /\ powers = <<>> /\ z = <<>>
    /\ limb_num = 0 /\ window_num = 0 /\ trace = <<>>
    /\ ret = <<>>

InitShr ==
    /\ \E c \in ShrConfigs : W = c[1] /\ LIMBS = c[2] /\ x \in Uints(c[1], c[2])
    /\ upperIn = <<>>
    /\ op = "none"
    /\ shift = 0
    /\ lastShift = 0
    /\ result = <<>>
    /\ resultUpper = <<>>
    /\ panicked = FALSE
    /\ IdleRed
    /\ IdlePow
    /\ pc = "idle"

\* Upper halves tried by shr_vartime_wide: all of them for a small Uint, the
\* corner patterns (0, 1, MAX, MAX - 1, top bit, alternating bits) otherwise.
WideUppers ==
    IF W * LIMBS <= 6 THEN Uints(W, LIMBS)
    ELSE LET M == Pow2(W * LIMBS)
         IN  {FromNat(v, W, LIMBS) :
                v \in {0, 1, M - 1, M - 2, M \div 2, M \div 3, (2 * M) \div 3}}

CallShr ==
    /\ op = "none"
    /\ \E s \in Shifts :
        LET rs == shr(x, s, W, LIMBS)
        IN  /\ result' = rs.limbs
            /\ panicked' = rs.panic
            /\ shift' = s
            /\ lastShift' = s
    /\ op' = "shr"
    /\ UNCHANGED <<W, LIMBS, pc, x, upperIn, resultUpper, redVars, powVars>>

\* A second shr applied to the result of the first.
CallShrAgain ==
    /\ op = "shr"
    /\ ~panicked
    /\ \E s \in Shifts :
        LET rs == shr(result, s, W, LIMBS)
        IN  /\ result' = rs.limbs
            /\ panicked' = rs.panic
            /\ shift' = shift + s
            /\ lastShift' = s
    /\ op' = "shr_shr"
    /\ UNCHANGED <<W, LIMBS, pc, x, upperIn, resultUpper, redVars, powVars>>

CallShrVartime ==
    /\ op = "none"
    /\ \E s \in Shifts :
        LET rs == shr_vartime(x, s, W, LIMBS)
        IN  /\ result' = rs.limbs
            /\ panicked' = rs.panic
            /\ shift' = s
            /\ lastShift' = s
    /\ op' = "shr_vartime"
    /\ UNCHANGED <<W, LIMBS, pc, x, upperIn, resultUpper, redVars, powVars>>

CallShrVartimeWide ==
    /\ op = "none"
    /\ \E hi \in WideUppers, s \in Shifts :
        LET rs == shr_vartime_wide(x, hi, s, W, LIMBS)
        IN  /\ result' = rs.lower
            /\ resultUpper' = rs.upper
            /\ panicked' = rs.panic
            /\ upperIn' = hi
            /\ shift' = s
            /\ lastShift' = s
    /\ op' = "shr_vartime_wide"
    /\ UNCHANGED <<W, LIMBS, pc, x, redVars, powVars>>

NextShr ==
    \/ CallShr
    \/ CallShrAgain
    \/ CallShrVartime
    \/ CallShrVartimeWide

SpecShr == InitShr /\ [][NextShr]_vars

(***************************************************************************)
(* modular/reduction.rs                                                    *)
(***************************************************************************)
\* muladdcarry: [hi, lo] with hi * 2^W + lo = xw * y + zw + cw, computed in
\* a WideWord of 2 * W bits.
muladdcarry(xw, y, zw, cw, w) ==
    LET res == (xw * y + zw + cw) % Pow2(2 * w)
    IN  [hi |-> res \div Pow2(w), lo |-> res % Pow2(w)]

\* Limb::adc (limb/add.rs): [sum, carry].
adc(a, b, carry, w) ==
    LET t == a + b + carry
    IN  [sum |-> t % Pow2(w), carry |-> t \div Pow2(w)]

\* Word::wrapping_mul, Word::wrapping_neg and `!` on a word of w bits.
wrapping_mul(a, b, w) == (a * b) % Pow2(w)
wrapping_neg(a, w) == (Pow2(w) - a) % Pow2(w)
word_not(a, w) == Pow2(w) - 1 - a

\* `while j < ($limbs - i)`: the limbs of $lower above limb i.
RECURSIVE reduction_lower_loop(_, _, _, _, _, _, _)
reduction_lower_loop(st, u, m, k, j, w, n) ==
    IF ~(j < n - k) THEN [st EXCEPT !.j = j]
    ELSE LET mc == muladdcarry(u, m[j], st.lower[k + j], st.carry, w)
         IN  reduction_lower_loop(
                 [st EXCEPT !.lower = [st.lower EXCEPT ![k + j] = mc.lo],
                            !.carry = mc.hi],
                 u, m, k, j + 1, w, n)

\* `while j < $limbs`: the limbs of $upper below limb i.
RECURSIVE reduction_upper_loop(_, _, _, _, _, _, _)
reduction_upper_loop(st, u, m, k, j, w, n) ==
    IF ~(j < n) THEN [st EXCEPT !.j = j]
    ELSE LET mc == muladdcarry(u, m[j], st.upper[k + j - n], st.carry, w)
         IN  reduction_upper_loop(
                 [st EXCEPT !.upper = [st.upper EXCEPT ![k + j - n] = mc.lo],
                            !.carry = mc.hi],
                 u, m, k, j + 1, w, n)

\* An iteration that adds the carry into upper[i] without the meta-carry.
reduction_iteration_drop_meta_carry(st, m, neg_inv, k, w, n) ==
    LET u     == wrapping_mul(st.lower[k], neg_inv, w)
        first == muladdcarry(u, m[0], st.lower[k], 0, w)
        s0    == [lower |-> st.lower, upper |-> st.upper, carry |-> first.hi, j |-> 1]
        s1    == reduction_lower_loop(s0, u, m, k, 1, w, n)
        s2    == reduction_upper_loop(s1, u, m, k, s1.j, w, n)
        sum   == adc(s2.upper[k], s2.carry, 0, w)
    IN  [lower      |-> s2.lower,
         upper      |-> [s2.upper EXCEPT ![k] = sum.sum],
         meta_carry |-> sum.carry]

\* An iteration that takes the pair returned by adc in the wrong order.
reduction_iteration_swapped_adc(st, m, neg_inv, k, w, n) ==
    LET u     == wrapping_mul(st.lower[k], neg_inv, w)
        first == muladdcarry(u, m[0], st.lower[k], 0, w)
        s0    == [lower |-> st.lower, upper |-> st.upper, carry |-> first.hi, j |-> 1]
        s1    == reduction_lower_loop(s0, u, m, k, 1, w, n)
        s2    == reduction_upper_loop(s1, u, m, k, s1.j, w, n)
        sum   == adc(s2.upper[k], s2.carry, st.meta_carry, w)
    IN  [lower      |-> s2.lower,
         upper      |-> [s2.upper EXCEPT ![k] = sum.carry],
         meta_carry |-> sum.sum]

\* One iteration of the `while i < $limbs` loop of impl_montgomery_reduction
\* on st = [lower, upper, meta_carry]; k is `i`.
reduction_iteration(st, m, neg_inv, k, w, n) ==
    LET u     == wrapping_mul(st.lower[k], neg_inv, w)
        first == muladdcarry(u, m[0], st.lower[k], 0, w)
        s0    == [lower |-> st.lower, upper |-> st.upper, carry |-> first.hi, j |-> 1]
        s1    == reduction_lower_loop(s0, u, m, k, 1, w, n)
        s2    == reduction_upper_loop(s1, u, m, k, s1.j, w, n)
        sum   == adc(s2.upper[k], s2.carry, st.meta_carry, w)
    IN  [lower      |-> s2.lower,
         upper      |-> [s2.upper EXCEPT ![k] = sum.sum],
         meta_carry |-> sum.carry]

\* impl_montgomery_reduction: all `limbs` iterations.
RECURSIVE impl_montgomery_reduction(_, _, _, _, _, _)
impl_montgomery_reduction(st, m, neg_inv, k, w, n) ==
    IF ~(k < n) THEN st
    ELSE CHOOSE res \in
             {impl_montgomery_reduction(next, m, neg_inv, k + 1, w, n) :
                 next \in {reduction_iteration(st, m, neg_inv, k, w, n)}} : TRUE

\* Uint::sbb / BoxedUint::sbb_assign with a zero borrow in:
\* [limbs, borrow], borrow = Word::MAX on underflow.
sbb(a, b, w, n) ==
    LET d == ToNat(a, w, n) - ToNat(b, w, n)
    IN  IF d < 0
        THEN [limbs |-> FromNat(d + Pow2(w * n), w, n), borrow |-> Pow2(w) - 1]
        ELSE [limbs |-> FromNat(d, w, n), borrow |-> 0]

\* BoxedUint::conditional_adc_assign / Uint::wrapping_add of a masked rhs.
conditional_add(a, b, choice, w, n) ==
    IF choice = 1
    THEN FromNat((ToNat(a, w, n) + ToNat(b, w, n)) % Pow2(w * n), w, n)
    ELSE a

\* Uint::sub_mod_with_carry (uint/sub_mod.rs): self - rhs mod p, given the
\* carry of the value above self.
sub_mod_with_carry(self, carry, rhs, p, w, n) ==
    LET d      == sbb(self, rhs, w, n)
        borrow == BitAnd(word_not(wrapping_neg(carry, w), w), d.borrow)
    IN  conditional_add(d.limbs, p, borrow % 2, w, n)

\* A final subtraction whose mask is inverted: the modulus is added back
\* when the subtraction did not borrow.
boxed_final_subtraction_inverted(up, carry, m, w, n) ==
    LET d      == sbb(up, m, w, n)
        borrow == BitAnd(word_not(wrapping_neg(carry, w), w), d.borrow)
    IN  conditional_add(d.limbs, m, 1 - BitAnd(borrow, 1), w, n)

\* The tail of montgomery_reduction_boxed_mut: out = upper, subtract the
\* modulus, add it back when the subtraction borrowed and meta_carry is 0.
boxed_final_subtraction(up, carry, m, w, n) ==
    LET d      == sbb(up, m, w, n)
        borrow == BitAnd(word_not(wrapping_neg(carry, w), w), d.borrow)
    IN  conditional_add(d.limbs, m, BitAnd(borrow, 1), w, n)

\* montgomery_reduction on (lo, hi).
montgomery_reduction(lo, hi, m, neg_inv, w, n) ==
    LET st == impl_montgomery_reduction(
                  [lower |-> lo, upper |-> hi, meta_carry |-> 0], m, neg_inv, 0, w, n)
    IN  sub_mod_with_carry(st.upper, st.meta_carry, m, m, w, n)

\* montgomery_reduction_boxed_mut / montgomery_reduction_boxed on (lo, hi).
montgomery_reduction_boxed(lo, hi, m, neg_inv, w, n) ==
    LET st == impl_montgomery_reduction(
                  [lower |-> lo, upper |-> hi, meta_carry |-> 0], m, neg_inv, 0, w, n)
    IN  boxed_final_subtraction(st.upper, st.meta_carry, m, w, n)

\* -m^-1 mod 2^W of an odd modulus (ResidueParams, computed by its builder).
NegInv(m, w) == CHOOSE v \in Words(w) : (m[0] * v + 1) % Pow2(w) = 0

(***************************************************************************)
(* A reduction as a state machine: the outer loop one iteration at a time, *)
(* then the final subtraction of either variant.                           *)
(***************************************************************************)
\* (Limb::BITS, limbs) of the reductions explored.
RedConfigs == {<<2, 1>>, <<2, 2>>, <<4, 1>>, <<2, 3>>}

\* The odd moduli explored: all of them, a sample for three limbs.
RedModuli(w, n) ==
    IF n < 3 THEN {m \in Uints(w, n) : m[0] % 2 = 1}
    ELSE {FromNat(v, w, n) : v \in {1, 3, 21, 35, 43, 63}}

InitRed ==
    /\ \E c \in RedConfigs :
          /\ W = c[1]
          /\ LIMBS = c[2]
          /\ modulus \in RedModuli(c[1], c[2])
          /\ lower_upper \in [lower : Uints(c[1], c[2]), upper : Uints(c[1], c[2])]
    /\ mod_neg_inv = NegInv(modulus, W)
    /\ lower = lower_upper.lower
    /\ upper = lower_upper.upper
    /\ meta_carry = 0
    /\ red_i = 0
    /\ out = <<>>
    /\ pc = "reduce"
    /\ IdleShr
    /\ IdlePow

ReductionIteration ==
    /\ pc = "reduce"
    /\ red_i < LIMBS
    /\ \E st \in {reduction_iteration(
                        [lower |-> lower, upper |-> upper, meta_carry |-> meta_carry],
                        modulus, mod_neg_inv, red_i, W, LIMBS)} :
           /\ lower' = st.lower
           /\ upper' = st.upper
           /\ meta_carry' = st.meta_carry
    /\ red_i' = red_i + 1
    /\ UNCHANGED <<W, LIMBS, pc, modulus, mod_neg_inv, lower_upper, out, shrVars, powVars>>

\* montgomery_reduction: `upper.sub_mod_with_carry(meta_carry, modulus, modulus)`.
FinishFixed ==
    /\ pc = "reduce"
    /\ red_i = LIMBS
    /\ out' = sub_mod_with_carry(upper, meta_carry, modulus, modulus, W, LIMBS)
    /\ pc' = "returned"
    /\ UNCHANGED <<W, LIMBS, modulus, mod_neg_inv, lower_upper, lower, upper,
                   meta_carry, red_i, shrVars, powVars>>

\* montgomery_reduction_boxed_mut: the result written into `out`.
FinishBoxed ==
    /\ pc = "reduce"
    /\ red_i = LIMBS
    /\ out' = boxed_final_subtraction(upper, meta_carry, modulus, W, LIMBS)
    /\ pc' = "written"
    /\ UNCHANGED <<W, LIMBS, modulus, mod_neg_inv, lower_upper, lower, upper,
                   meta_carry, red_i, shrVars, powVars>>

NextRed ==
    \/ ReductionIteration
    \/ FinishFixed
    \/ FinishBoxed

SpecRed == InitRed /\ [][NextRed]_vars

(***************************************************************************)
(* modular/boxed_residue/pow.rs                                            *)
(***************************************************************************)
WINDOW == 4
WINDOW_MASK == Pow2(WINDOW) - 1

\* MontgomeryMultiplier::mul / mul_assign / square_assign (boxed_residue/
\* mul.rs): the widening product of a and b, reduced by
\* montgomery_reduction_boxed_mut.
MontMul(a, b, m, neg_inv, w, n) ==
    CHOOSE res \in
        {montgomery_reduction_boxed(FromNat(prod % Pow2(w * n), w, n),
                                    FromNat(prod \div Pow2(w * n), w, n),
                                    m, neg_inv, w, n) :
            prod \in {ToNat(a, w, n) * ToNat(b, w, n)}} : TRUE

\* The entries of `trace`.
OpMul == [op |-> "mul", reads |-> <<>>]
OpSquare == [op |-> "square_assign", reads |-> <<>>]
OpMulAssign == [op |-> "mul_assign", reads |-> <<>>]
OpScan(reads) == [op |-> "scan", reads |-> reads]

\* `for i in 2..(1 << WINDOW) { powers.push(multiplier.mul(&powers[i - 1], x)) }`
\* on the sequence ps, ps[k + 1] standing for powers[k].
RECURSIVE push_powers(_, _, _, _, _, _, _)
push_powers(ps, k, xm, m, neg_inv, w, n) ==
    IF ~(k < Pow2(WINDOW)) THEN ps
    ELSE CHOOSE res \in
             {push_powers(next, k + 1, xm, m, neg_inv, w, n) :
                 next \in {Append(ps, MontMul(ps[k], xm, m, neg_inv, w, n))}} : TRUE

starting_limb(eb, w) == (eb - 1) \div w
starting_bit_in_limb(eb, w) == (eb - 1) % w
starting_window(eb, w) == starting_bit_in_limb(eb, w) \div WINDOW
\* A top-window mask that keeps all WINDOW bits.
starting_window_mask_full(eb, w) == WINDOW_MASK

starting_window_mask(eb, w) == Pow2((starting_bit_in_limb(eb, w) % WINDOW) + 1) - 1

\* pow_setup with the exponent_bits = 0 return placed after the table is built.
pow_setup_table_first(xm, eb, rr, m, neg_inv, w, n) ==
    [done |-> eb = 0,
     ret |-> IF eb = 0 THEN rr ELSE <<>>,
     powers |-> push_powers(<<rr, xm>>, 2, xm, m, neg_inv, w, n),
     z |-> rr,
     limb_num |-> IF eb = 0 THEN 0 ELSE starting_limb(eb, w),
     trace |-> [k \in 1 .. (Pow2(WINDOW) - 2) |-> OpMul]]

\* pow_montgomery_form up to its limb loop: the early return for
\* exponent_bits = 0, else the table of powers and z = r.
pow_setup(xm, eb, rr, m, neg_inv, w, n) ==
    IF eb = 0
    THEN [done |-> TRUE, ret |-> rr, powers |-> <<>>, z |-> <<>>,
          limb_num |-> 0, trace |-> <<>>]
    ELSE [done |-> FALSE, ret |-> <<>>,
          powers |-> push_powers(<<rr, xm>>, 2, xm, m, neg_inv, w, n),
          z |-> rr,
          limb_num |-> starting_limb(eb, w),
          trace |-> [k \in 1 .. (Pow2(WINDOW) - 2) |-> OpMul]]

\* The constant-time lookup: power = powers[0], then for i in 1..16 the
\* conditional assignment of powers[i] under i == idx.  [power, reads].
RECURSIVE lookup_scan(_, _, _, _)
lookup_scan(ps, idx, k, acc) ==
    IF ~(k < Pow2(WINDOW)) THEN acc
    ELSE CHOOSE res \in
             {lookup_scan(ps, idx, k + 1, next) :
                 next \in {[power |-> IF k = idx THEN ps[k + 1] ELSE acc.power,
                            reads |-> Append(acc.reads, k)]}} : TRUE

\* A lookup whose loop stops one entry short: `for i in 1..(1 << WINDOW) - 1`.
RECURSIVE lookup_scan_short(_, _, _, _)
lookup_scan_short(ps, idx, k, acc) ==
    IF ~(k < Pow2(WINDOW) - 1) THEN acc
    ELSE CHOOSE res \in
             {lookup_scan_short(ps, idx, k + 1, next) :
                 next \in {[power |-> IF k = idx THEN ps[k + 1] ELSE acc.power,
                            reads |-> Append(acc.reads, k)]}} : TRUE

lookup_short(ps, idx) ==
    lookup_scan_short(ps, idx, 1, [power |-> ps[1], reads |-> <<0>>])

lookup(ps, idx) == lookup_scan(ps, idx, 1, [power |-> ps[1], reads |-> <<0>>])

\* `for _ in 1..=WINDOW { multiplier.square_assign(&mut z) }`
RECURSIVE square_times(_, _, _, _, _, _)
square_times(zv, k, m, neg_inv, w, n) ==
    IF k = 0 THEN zv
    ELSE CHOOSE res \in
             {square_times(next, k - 1, m, neg_inv, w, n) :
                 next \in {MontMul(zv, zv, m, neg_inv, w, n)}} : TRUE

\* A window step that skips the lookup and the multiplication for idx = 0.
window_step_skip_zero(zv, wv, ln, wn, eb, ps, m, neg_inv, w, n) ==
    LET idx0   == BitAnd(wv \div Pow2(wn * WINDOW), WINDOW_MASK)
        is_top == ln = starting_limb(eb, w) /\ wn = starting_window(eb, w)
        idx    == IF is_top THEN BitAnd(idx0, starting_window_mask(eb, w)) ELSE idx0
        sq     == IF is_top THEN <<>> ELSE [k \in 1 .. WINDOW |-> OpSquare]
    IN  CHOOSE res \in
            {IF idx = 0
             THEN [z |-> z1, ops |-> sq]
             ELSE [z   |-> MontMul(z1, sel.power, m, neg_inv, w, n),
                   ops |-> sq \o <<OpScan(sel.reads), OpMulAssign>>] :
                z1  \in {IF is_top THEN zv
                         ELSE square_times(zv, WINDOW, m, neg_inv, w, n)},
                sel \in {lookup(ps, idx)}} : TRUE

\* The body of `while window_num > 0` for window wn (already decremented)
\* of limb ln holding the word wv: [z, ops].
window_step(zv, wv, ln, wn, eb, ps, m, neg_inv, w, n) ==
    LET idx0   == BitAnd(wv \div Pow2(wn * WINDOW), WINDOW_MASK)
        is_top == ln = starting_limb(eb, w) /\ wn = starting_window(eb, w)
        idx    == IF is_top THEN BitAnd(idx0, starting_window_mask(eb, w)) ELSE idx0
    IN  CHOOSE res \in
            {[z   |-> MontMul(z1, sel.power, m, neg_inv, w, n),
              ops |-> (IF is_top THEN <<>> ELSE [k \in 1 .. WINDOW |-> OpSquare])
                      \o <<OpScan(sel.reads), OpMulAssign>>] :
                z1  \in {IF is_top THEN zv
                         ELSE square_times(zv, WINDOW, m, neg_inv, w, n)},
                sel \in {lookup(ps, idx)}} : TRUE

\* BoxedUint::bits_precision of the exponent.
bits_precision(e, w) == Cardinality(DOMAIN e) * w

(***************************************************************************)
(* An exponentiation as a state machine: the call, then the limb loop and  *)
(* the window loop one step at a time.                                     *)
(***************************************************************************)
\* Bases 0 .. MaxBase and an element g of large order are tried for each modulus.
MaxBase == 1

\* The builds explored: Limb::BITS w, a modulus m of n limbs, an exponent of
\* en limbs, an element g of large multiplicative order modulo m.
PowConfigs ==
    {[w |-> 4, n |-> 1, en |-> 2, m |-> 13, g |-> 2],
     [w |-> 8, n |-> 1, en |-> 1, m |-> 251, g |-> 6],
     [w |-> 4, n |-> 2, en |-> 1, m |-> 129, g |-> 2],
     [w |-> 4, n |-> 2, en |-> 1, m |-> 251, g |-> 6],
     [w |-> 8, n |-> 1, en |-> 2, m |-> 251, g |-> 6]}

\* The exponents explored: all of them up to 8 bits, otherwise a sample (0, 1,
\* single windows set, top bit alone, all but the top bit, all bits, mixed).
PowExponents(c) ==
    IF c.w * c.en <= 8 THEN Uints(c.w, c.en)
    ELSE {FromNat(v, c.w, c.en) :
            v \in {0, 1, 240, 256, 3840, 4660, 32767, 32768, 42435, 65535}}

PowBases(c) == (0 .. MaxBase) \cup {c.g}

InitPow ==
    /\ \E c \in PowConfigs :
          /\ W = c.w
          /\ LIMBS = c.n
          /\ modulus = FromNat(c.m, c.w, c.n)
          /\ exponent \in PowExponents(c)
          /\ base \in PowBases(c)
    /\ mod_neg_inv = NegInv(modulus, W)
    /\ r = FromNat(Pow2(W * LIMBS) % ToNat(modulus, W, LIMBS), W, LIMBS)
    /\ montgomery_form =
           FromNat((base * Pow2(W * LIMBS)) % ToNat(modulus, W, LIMBS), W, LIMBS)
    /\ entry = "none"
    /\ exponent_bits = 0
    /\ powers = <<>>
    /\ z = <<>>
    /\ limb_num = 0
    /\ window_num = 0
    /\ trace = <<>>
    /\ ret = <<>>
    /\ pc = "idle"
    /\ IdleShr
    /\ lower_upper = <<>> /\ lower = <<>> /\ upper = <<>>
    /\ meta_carry = 0 /\ red_i = 0 /\ out = <<>>

\* pow_montgomery_form entered with exponent_bits = eb.
Enter(eb) ==
    \E st \in {pow_setup(montgomery_form, eb, r, modulus, mod_neg_inv, W, LIMBS)} :
        /\ exponent_bits' = eb
        /\ powers' = st.powers
        /\ z' = st.z
        /\ limb_num' = st.limb_num
        /\ trace' = st.trace
        /\ ret' = st.ret
        /\ pc' = IF st.done THEN "done" ELSE "limb"
        /\ UNCHANGED <<W, LIMBS, window_num, base, montgomery_form, r, exponent,
                       shrVars, redVars>>

\* BoxedResidue::pow
CallPow ==
    /\ pc = "idle"
    /\ entry' = "pow"
    /\ Enter(bits_precision(exponent, W))

\* BoxedResidue::pow_bounded_exp
CallPowBoundedExp ==
    /\ pc = "idle"
    /\ entry' = "pow_bounded_exp"
    /\ \E eb \in 0 .. bits_precision(exponent, W) : Enter(eb)

\* The head of `for limb_num in (0..=starting_limb).rev()`.
EnterLimb ==
    /\ pc = "limb"
    /\ window_num' = IF limb_num = starting_limb(exponent_bits, W)
                      THEN starting_window(exponent_bits, W) + 1
                      ELSE W \div WINDOW
    /\ pc' = "window"
    /\ UNCHANGED <<W, LIMBS, shrVars, redVars, base, montgomery_form, r, exponent,
                   entry, exponent_bits, powers, z, limb_num, trace, ret>>

\* One iteration of `while window_num > 0`.
WindowStep ==
    /\ pc = "window"
    /\ window_num > 0
    /\ window_num' = window_num - 1
    /\ \E st \in {window_step(z, exponent[limb_num], limb_num, window_num - 1,
                                exponent_bits, powers, modulus, mod_neg_inv, W, LIMBS)} :
           /\ z' = st.z
           /\ trace' = trace \o st.ops
    /\ UNCHANGED <<W, LIMBS, pc, shrVars, redVars, base, montgomery_form, r, exponent,
                   entry, exponent_bits, powers, limb_num, ret>>

\* The window loop of a limb has ended: the next limb, or `z` is returned.
LeaveLimb ==
    /\ pc = "window"
    /\ window_num = 0
    /\ IF limb_num = 0
       THEN /\ ret' = z
            /\ pc' = "done"
            /\ UNCHANGED limb_num
       ELSE /\ limb_num' = limb_num - 1
            /\ pc' = "limb"
            /\ UNCHANGED ret
    /\ UNCHANGED <<W, LIMBS, shrVars, redVars, base, montgomery_form, r, exponent,
                   entry, exponent_bits, powers, z, window_num, trace>>

NextPow ==
    \/ CallPow
    \/ CallPowBoundedExp
    \/ EnterLimb
    \/ WindowStep
    \/ LeaveLimb

SpecPow == InitPow /\ [][NextPow]_vars

(***************************************************************************)
(* Exponentiation claims                                                   *)
(***************************************************************************)
PowN == ToNat(modulus, W, LIMBS)
PowR == Pow2(W * LIMBS)
PowE == ToNat(exponent, W, Cardinality(DOMAIN exponent))

\* Reference modular exponentiation on plain integers, no Montgomery form.
RECURSIVE ModExp(_, _, _)
ModExp(a, e, m) ==
    IF e = 0 THEN 1 % m
    ELSE CHOOSE res \in
             {(h * h * (IF e % 2 = 1 THEN a ELSE 1)) % m :
                 h \in {ModExp(a, e \div 2, m)}} : TRUE

\* The Montgomery form v * R mod n of a plain value v.
MontForm(v) == FromNat((v * PowR) % PowN, W, LIMBS)

\* BoxedResidue::retrieve: a value taken out of Montgomery form.
Retrieve(v) ==
    ToNat(montgomery_reduction_boxed(v, Zero(LIMBS), modulus, mod_neg_inv, W, LIMBS),
          W, LIMBS)

\* C1: pow(e) returns the Montgomery form of a^e mod n: taken out of
\* Montgomery form, the result equals the reference a^e mod n.
C1_PowCorrect ==
    (pc = "done" /\ entry = "pow")
        => /\ ret = MontForm(ModExp(base, PowE, PowN))
           /\ Retrieve(ret) = ModExp(base, PowE, PowN)

\* pow has returned for a base of large order and an exponent whose windows
\* are all non-zero and include 15.
C1_Witness ==
    /\ pc = "done" /\ entry = "pow" /\ base > 1
    /\ PowE % 16 = 15 /\ PowE \div 16 \in 1 .. 14
    /\ Retrieve(ret) # 1

\* C3: pow_bounded_exp(e, exponent_bits) with exponent_bits > 0 returns the
\* Montgomery form of a^(e mod 2^exponent_bits) mod n.
C3_BoundedExpUsesLowBits ==
    (pc = "done" /\ entry = "pow_bounded_exp" /\ exponent_bits > 0)
        => ret = MontForm(ModExp(base, PowE % Pow2(exponent_bits), PowN))

\* pow_bounded_exp has returned for an exponent_bits that is no multiple of
\* the window width and an exponent with bits set above exponent_bits that
\* change the power.
C3_Witness ==
    /\ pc = "done" /\ entry = "pow_bounded_exp"
    /\ exponent_bits > WINDOW /\ exponent_bits % WINDOW # 0
    /\ PowE >= Pow2(exponent_bits)
    /\ ModExp(base, PowE, PowN) # ModExp(base, PowE % Pow2(exponent_bits), PowN)

\* C4: pow_bounded_exp(e, 0) returns R, the Montgomery form of 1, with no
\* table of powers built and no multiplier operation performed.
C4_ZeroBitsReturnsR ==
    (pc = "done" /\ entry = "pow_bounded_exp" /\ exponent_bits = 0)
        => /\ ret = r
           /\ ret = MontForm(1)
           /\ powers = <<>>
           /\ trace = <<>>

\* pow_bounded_exp(e, 0) has returned for a base other than 0 and 1 and a
\* non-zero exponent.
C4_Witness ==
    /\ pc = "done" /\ entry = "pow_bounded_exp" /\ exponent_bits = 0
    /\ base > 1 /\ PowE > 0

\* The operations an exponentiation over eb exponent bits performs, written
\* from eb alone: 14 table multiplications, then per window of 4 bits (the
\* first one excepted) 4 squarings, and for every window a scan of all 16
\* table entries and one multiplication.
AllReads == [k \in 1 .. 16 |-> k - 1]
NumWindows(eb) == ((eb - 1) \div 4) + 1
ExpectedOps(eb) ==
    IF eb = 0 THEN <<>>
    ELSE [p \in 1 .. (10 + 6 * NumWindows(eb)) |->
            IF p <= 14 THEN OpMul
            ELSE IF p = 15 THEN OpScan(AllReads)
            ELSE IF p = 16 THEN OpMulAssign
            ELSE IF (p - 17) % 6 < 4 THEN OpSquare
            ELSE IF (p - 17) % 6 = 4 THEN OpScan(AllReads)
            ELSE OpMulAssign]

\* C5: the sequence of multiplier operations and table scans depends on
\* exponent_bits only, whatever the exponent's value, and every scan reads
\* all 16 entries of the table.
C5_OpsDependOnBitsOnly ==
    /\ Len(trace) <= Len(ExpectedOps(exponent_bits))
    /\ \A p \in 1 .. Len(trace) : trace[p] = ExpectedOps(exponent_bits)[p]
    /\ pc = "done" => Len(trace) = Len(ExpectedOps(exponent_bits))

\* pow_bounded_exp has returned after three windows, the top one partial,
\* for an exponent whose lowest window is zero and whose next one is not.
C5_Witness ==
    /\ pc = "done" /\ entry = "pow_bounded_exp"
    /\ exponent_bits = 2 * WINDOW + 3
    /\ PowE % 16 = 0 /\ (PowE \div 16) % 16 # 0
    /\ Len(trace) = 28

(***************************************************************************)
(* Reduction claims                                                        *)
(***************************************************************************)
\* R = 2^(limbs * W), the input a = lower + upper * R, and the modulus n.
RedR == Pow2(W * LIMBS)
RedA == ToNat(lower_upper.lower, W, LIMBS) + RedR * ToNat(lower_upper.upper, W, LIMBS)
RedN == ToNat(modulus, W, LIMBS)
RedDone == pc \in {"returned", "written"}

\* C2: for a valid input a < n * R both variants return out < n with
\* out * R congruent to a modulo n.
C2_ReductionCorrect ==
    (RedDone /\ RedA < RedN * RedR)
        => /\ ToNat(out, W, LIMBS) < RedN
           /\ (ToNat(out, W, LIMBS) * RedR) % RedN = RedA % RedN

\* A three-limb reduction written by the boxed variant whose loop ended with
\* the meta-carry set, so that the final subtraction had to act.
C2_Witness ==
    /\ pc = "written" /\ LIMBS = 3 /\ RedA < RedN * RedR
    /\ meta_carry = 1 /\ out # upper

\* C9 as stated: reducing (lower = 0, upper = 1) for a one-limb modulus
\* yields R mod n.
C9_Original ==
    (pc = "returned" /\ LIMBS = 1
        /\ lower_upper.lower = Zero(1) /\ ToNat(lower_upper.upper, W, 1) = 1)
        => ToNat(out, W, LIMBS) = RedR % RedN

\* C9 amended: reducing (lower = 0, upper = 1), the value R, for a one-limb
\* modulus yields R * R^-1 = 1 mod n.
C9_ReducingRYieldsOne ==
    (pc = "returned" /\ LIMBS = 1
        /\ lower_upper.lower = Zero(1) /\ ToNat(lower_upper.upper, W, 1) = 1)
        => ToNat(out, W, LIMBS) = 1 % RedN

\* (0, 1) reduced for a one-limb modulus n with R mod n different from 1.
C9_Witness ==
    /\ pc = "returned" /\ LIMBS = 1
    /\ lower_upper.lower = Zero(1) /\ ToNat(lower_upper.upper, W, 1) = 1
    /\ RedR % RedN # 1 % RedN

\* The value left by the loop: meta_carry * R + upper.
RedLeft == meta_carry * RedR + ToNat(upper, W, LIMBS)

\* C10 as stated: for every input, the value left after the loop is at most
\* 2 * modulus with meta_carry in {0, 1}, and the result is below the modulus.
C10_Original ==
    /\ (pc = "reduce" /\ red_i = LIMBS)
           => (meta_carry \in {0, 1} /\ RedLeft <= 2 * RedN)
    /\ RedDone => ToNat(out, W, LIMBS) < RedN

\* C10 amended: for every input a < n * R, the value left after the loop is
\* at most 2 * modulus with meta_carry in {0, 1}, and the result of the
\* final subtraction is below the modulus.
C10_BoundedAfterLoop ==
    RedA < RedN * RedR =>
        /\ (pc = "reduce" /\ red_i = LIMBS)
               => (meta_carry \in {0, 1} /\ RedLeft <= 2 * RedN)
        /\ RedDone => ToNat(out, W, LIMBS) < RedN

\* The loop of a multi-limb reduction of a valid input has ended with a
\* value of at least the modulus.
C10_Witness ==
    /\ pc = "reduce" /\ red_i = LIMBS /\ LIMBS > 1
    /\ RedA < RedN * RedR
    /\ RedLeft >= RedN

(***************************************************************************)
(* Shift claims                                                            *)
(***************************************************************************)
BITS == W * LIMBS

\* C6: two successive shr by s1 and s2 with s1 + s2 < BITS give what one shr
\* by s1 + s2 gives.
C6_ShrComposes ==
    (op = "shr_shr" /\ shift < BITS)
        => (~panicked /\ result = shr(x, shift, W, LIMBS).limbs)

\* Two non-zero shr amounts whose sum crosses a limb boundary and leaves
\* some bits of a multi-limb receiver.
C6_Witness ==
    /\ op = "shr_shr" /\ shift < BITS /\ LIMBS > 1
    /\ lastShift > 0 /\ shift - lastShift > 0 /\ shift > W
    /\ result # Zero(LIMBS)

\* C7: shr and shr_vartime by BITS or more (BITS itself included) return
\* zero and do not panic.
C7_ShiftBeyondWidthIsZero ==
    (op \in {"shr", "shr_vartime"} /\ shift >= BITS)
        => (~panicked /\ result = Zero(LIMBS))

\* shr_vartime by exactly BITS, which its early return does not catch, on a
\* multi-limb receiver with its top bit set.
C7_Witness ==
    /\ op = "shr_vartime" /\ shift = BITS /\ LIMBS > 1
    /\ x[LIMBS - 1] >= Pow2(W - 1) /\ result = Zero(LIMBS) /\ ~panicked

\* C8: shr_vartime_wide returns the low and high halves of
\* floor((upper * 2^BITS + lower) / 2^shift), for every shift amount.
C8_WideShiftIsDivision ==
    op = "shr_vartime_wide" =>
        LET wide == ToNat(upperIn, W, LIMBS) * Pow2(BITS) + ToNat(x, W, LIMBS)
            q    == wide \div Pow2(shift)
        IN  /\ ~panicked
            /\ ToNat(result, W, LIMBS) = q % Pow2(BITS)
            /\ ToNat(resultUpper, W, LIMBS) = q \div Pow2(BITS)

\* A wide shift by more than BITS and less than 2 * BITS that moves bits of
\* the upper half into the lower half.
C8_Witness ==
    /\ op = "shr_vartime_wide" /\ LIMBS > 1
    /\ shift > BITS /\ shift < 2 * BITS
    /\ result # Zero(LIMBS) /\ resultUpper = Zero(LIMBS)

=============================================================================
